---- MODULE Spec2Model ----
(***************************************************************************)
(* Mastodon-Community-Bridge (mastodon_bridge.py): feature extraction,     *)
(* similarity scoring, bridge discovery and the command-line entry point.  *)
(*                                                                         *)
(* Python strings are sequences of one-character strings, dicts are        *)
(* functions whose DOMAIN is the set of keys present, Python sets are      *)
(* sets, floats are exact fractions plus NaN.                              *)
(***************************************************************************)
EXTENDS Integers, Sequences, FiniteSets, TLC

VARIABLES
    pc,             \* position of the running program / of the call under study
    args,           \* argparse namespace of main()
    exitCode,       \* process exit status (-1 while running)
    ran,            \* methods of MastodonBridge that main() has invoked so far
    instances,      \* MastodonBridge.instances
    min_similarity, \* MastodonBridge.min_similarity
    posts_data,     \* MastodonBridge.posts_data
    fetched,        \* number of instances collect_data has already visited
    bridges,        \* the list find_bridges returned
    text,           \* argument of extract_keywords
    keywords,       \* value extract_keywords returned
    post1,          \* first argument of calculate_similarity
    post2,          \* second argument of calculate_similarity
    similarity      \* outcome of calculate_similarity(post1, post2)

vars == <<pc, args, exitCode, ran, instances, min_similarity, posts_data,
          fetched, bridges, text, keywords, post1, post2, similarity>>

mainVars == <<args, exitCode, ran, instances, min_similarity, posts_data,
              fetched, bridges>>
kwVars == <<text, keywords>>
simVars == <<post1, post2, similarity>>

(***************************************************************************)
(* Bounds of the model.                                                    *)
(***************************************************************************)
MaxLen == 5     \* longest text handed to extract_keywords
MaxPosts == 3   \* most posts all timelines together deliver in one run

(***************************************************************************)
(* Python str operations.                                                  *)
(***************************************************************************)
UpperCase == <<"A","B","C","D","E","F","G","H","I","J","K","L","M",
               "N","O","P","Q","R","S","T","U","V","W","X","Y","Z">>
LowerCase == <<"a","b","c","d","e","f","g","h","i","j","k","l","m",
               "n","o","p","q","r","s","t","u","v","w","x","y","z">>

UpperSet == { UpperCase[k] : k \in 1..Len(UpperCase) }
LowerMap ==
    [c \in UpperSet |->
        LowerCase[CHOOSE k \in 1..Len(UpperCase) : UpperCase[k] = c]]

LowerChar(c) == IF c \in UpperSet THEN LowerMap[c] ELSE c

\* str.lower()
lower(s) == [k \in 1..Len(s) |-> LowerChar(s[k])]

\* the characters str.split() treats as separators
Whitespace == {" ", "\n", "\t"}

RECURSIVE SplitFrom(_, _, _, _)
SplitFrom(s, k, cur, acc) ==
    IF k > Len(s)
    THEN IF cur = <<>> THEN acc ELSE Append(acc, cur)
    ELSE IF s[k] \in Whitespace
         THEN SplitFrom(s, k + 1, <<>>,
                        IF cur = <<>> THEN acc ELSE Append(acc, cur))
         ELSE SplitFrom(s, k + 1, Append(cur, s[k]), acc)

\* str.split(): the maximal runs of non-whitespace characters, in order
split(s) == SplitFrom(s, 1, <<>>, <<>>)

RECURSIVE lstrip(_, _)
lstrip(w, chars) ==
    IF w # <<>> /\ Head(w) \in chars THEN lstrip(Tail(w), chars) ELSE w

RECURSIVE rstrip(_, _)
rstrip(w, chars) ==
    IF w # <<>> /\ w[Len(w)] \in chars
    THEN rstrip(SubSeq(w, 1, Len(w) - 1), chars)
    ELSE w

\* str.strip(chars)
strip(w, chars) == rstrip(lstrip(w, chars), chars)

\* str.startswith(prefix)
startswith(w, prefix) ==
    Len(w) >= Len(prefix) /\ SubSeq(w, 1, Len(prefix)) = prefix

RECURSIVE replace(_, _, _)
\* str.replace(old, new): non-overlapping occurrences, left to right
replace(s, old, new) ==
    IF s = <<>> THEN <<>>
    ELSE IF startswith(s, old)
         THEN new \o replace(SubSeq(s, Len(old) + 1, Len(s)), old, new)
         ELSE <<Head(s)>> \o replace(Tail(s), old, new)

\* the characters of '.,!?;:()[]{}'
Punctuation == {".", ",", "!", "?", ";", ":", "(", ")", "[", "]", "{", "}"}

Http == <<"h", "t", "t", "p">>

\* the length a word must exceed to be kept (len(w) > 3)
MinWordLen == 3

(***************************************************************************)
(* MastodonBridge.extract_keywords                                         *)
(***************************************************************************)
extract_keywords(t) ==
    IF t = <<>> THEN {}
    ELSE LET words == split(lower(t))
         IN { strip(words[k], Punctuation) :
                k \in { n \in 1..Len(words) :
                          Len(words[n]) > MinWordLen
                          /\ ~startswith(words[n], Http) } }

(***************************************************************************)
(* Python floats: exact fractions n/d with d > 0, and NaN.  Every          *)
(* comparison with NaN is false.                                           *)
(***************************************************************************)
RECURSIVE GCD(_, _)
GCD(a, b) == IF b = 0 THEN a ELSE GCD(b, a % b)

Abs(a) == IF a < 0 THEN -a ELSE a

Frac(n, d) ==
    LET g == GCD(Abs(n), d)
    IN [nan |-> FALSE, n |-> n \div g, d |-> d \div g]

NaN == [nan |-> TRUE, n |-> 0, d |-> 1]
Zero == Frac(0, 1)
One == Frac(1, 1)

FLt(x, y) == ~x.nan /\ ~y.nan /\ x.n * y.d < y.n * x.d
FGt(x, y) == FLt(y, x)
FGe(x, y) == ~x.nan /\ ~y.nan /\ x.n * y.d >= y.n * x.d
FAdd(x, y) == Frac(x.n * y.d + y.n * x.d, x.d * y.d)
FMulInt(x, k) == Frac(x.n * k, x.d)
FDivInt(x, k) == Frac(x.n, x.d * k)
\* min(x, y) of two floats: y only when y < x
FMin(x, y) == IF FLt(y, x) THEN y ELSE x

Max(a, b) == IF a >= b THEN a ELSE b

(***************************************************************************)
(* Outcome of a call: the value returned, or the exception raised.         *)
(***************************************************************************)
Return(v) == [exc |-> "none", val |-> v]
Raise(e, dflt) == [exc |-> e, val |-> dflt]

\* dict.get(key, default)
Get(dict, key, default) == IF key \in DOMAIN dict THEN dict[key] ELSE default

(***************************************************************************)
(* MastodonBridge.extract_hashtags: tag['name'] raises KeyError on a tag   *)
(* object without the key.                                                 *)
(***************************************************************************)
extract_hashtags(post) ==
    IF "tags" \in DOMAIN post
    THEN IF \A k \in 1..Len(post.tags) : "name" \in DOMAIN post.tags[k]
         THEN Return({ lower(post.tags[k].name) : k \in 1..Len(post.tags) })
         ELSE Raise("KeyError", {})
    ELSE Return({})

P_open == <<"<", "p", ">">>
P_close == <<"<", "/", "p", ">">>
Space == <<" ">>

\* post.get('content', '').replace('<p>', ' ').replace('</p>', ' ')
content_of(post) ==
    replace(replace(Get(post, "content", <<>>), P_open, Space), P_close, Space)

\* weight of the hashtag overlap, and the sum of the two weights
TagWeight == 2
WeightSum == 3

\* the hashtag overlap is not doubled
tag_sim_unweighted(tags1, tags2) ==
    Frac(Cardinality(tags1 \cap tags2), Max(Cardinality(tags1 \cup tags2), 1))

\* the overlap is divided by the size of the first post's set, not the union's
tag_sim_first_only(tags1, tags2) ==
    FMulInt(Frac(Cardinality(tags1 \cap tags2), Max(Cardinality(tags1), 1)),
            TagWeight)

\* tag_sim = (tag_overlap / max(len(tags1 | tags2), 1)) * 2
tag_sim(tags1, tags2) ==
    LET tag_overlap == Cardinality(tags1 \cap tags2)
    IN  FMulInt(Frac(tag_overlap, Max(Cardinality(tags1 \cup tags2), 1)),
                TagWeight)

\* word_sim = word_overlap / max(len(words1 | words2), 1)
word_sim(words1, words2) ==
    LET word_overlap == Cardinality(words1 \cap words2)
    IN  Frac(word_overlap, Max(Cardinality(words1 \cup words2), 1))

\* return tag_sim + word_sim: neither normalised nor clamped
weighted_unnormalised(ts, ws) == FAdd(ts, ws)

\* min((tag_sim + word_sim) / 3, 1.0)
weighted(ts, ws) == FMin(FDivInt(FAdd(ts, ws), WeightSum), One)

(***************************************************************************)
(* MastodonBridge.calculate_similarity                                     *)
(***************************************************************************)
calculate_similarity(p1, p2) ==
    LET t1 == extract_hashtags(p1)
        t2 == extract_hashtags(p2)
        words1 == extract_keywords(content_of(p1))
        words2 == extract_keywords(content_of(p2))
    IN  IF t1.exc # "none" THEN Raise(t1.exc, Zero)
        ELSE IF t2.exc # "none" THEN Raise(t2.exc, Zero)
        ELSE IF t1.val = {} /\ t2.val = {} /\ words1 = {} /\ words2 = {}
             THEN Return(Zero)
             ELSE Return(weighted(tag_sim(t1.val, t2.val),
                                  word_sim(words1, words2)))

(***************************************************************************)
(* Post records as the timeline API delivers them; every key is optional.  *)
(***************************************************************************)
TagLinux == [name |-> <<"L","i","n","u","x">>, url |-> "t/linux"]
TagLinuxLower == [name |-> <<"l","i","n","u","x">>, url |-> "t/linux"]
TagLinuxUpper == [name |-> <<"L","I","N","U","X">>, url |-> "t/linux"]
TagRust == [name |-> <<"r","u","s","t">>, url |-> "t/rust"]
TagNameless == [url |-> "t/unnamed"]

ContentFree ==
    <<"<","p",">","F","r","e","e"," ","c","o","d","e","<","/","p",">">>
ContentNice ==
    <<"f","r","e","e"," ","C","O","D","E",","," ","n","i","c","e","!">>
ContentLink ==
    <<"s","e","e"," ","h","t","t","p",":","/","/","x"," ","n","o","w">>

TagLists ==
    { <<>>, <<TagLinux>>, <<TagLinuxLower, TagLinuxUpper>>,
      <<TagLinuxLower, TagRust>>, <<TagNameless>>, <<TagRust, TagNameless>> }
Contents == { <<>>, ContentFree, ContentNice, ContentLink }

EmptyDict == <<>>

\* the posts handed to calculate_similarity: tags and content each absent or
\* one of the values above
SimPosts ==
    { [url |-> "u"] }
    \cup { [tags |-> t] : t \in TagLists }
    \cup { [content |-> c] : c \in Contents }
    \cup { [tags |-> t, content |-> c] : t \in TagLists, c \in Contents }

NoResult == [exc |-> "pending", val |-> Zero]

MainIdle ==
    /\ args = <<>>
    /\ exitCode = -1
    /\ ran = {}
    /\ instances = <<>>
    /\ min_similarity = NaN
    /\ posts_data = <<>>
    /\ fetched = 0
    /\ bridges = <<>>

KwIdle == text = <<>> /\ keywords = {}

SimIdle == post1 = EmptyDict /\ post2 = EmptyDict /\ similarity = NoResult

(***************************************************************************)
(* MastodonBridge.find_bridges.  A bridge refers to its two entries of     *)
(* posts_data by position: the entries are distinct objects, and the       *)
(* bridge holds references to them.                                        *)
(***************************************************************************)
RECURSIVE PairSeq(_, _, _)
PairSeq(i, j, n) ==
    IF i > n THEN <<>>
    ELSE IF j > n THEN PairSeq(i + 1, i + 2, n)
         ELSE <<(<<i, j>>)>> \o PairSeq(i, j + 1, n)

RECURSIVE PairSeqAll(_, _, _)
PairSeqAll(i, j, n) ==
    IF i > n THEN <<>>
    ELSE IF j > n THEN PairSeqAll(i + 1, 1, n)
         ELSE <<(<<i, j>>)>> \o PairSeqAll(i, j + 1, n)

\* the inner loop runs over all of posts_data instead of posts_data[i + 1:]
pairs_of_all(posts) == PairSeqAll(1, 1, Len(posts))

\* for i, data1 in enumerate(posts_data): for data2 in posts_data[i + 1:]
pairs_of(posts) == PairSeq(1, 2, Len(posts))

\* the instance check is missing
same_instance_never(data1, data2) == FALSE

\* data1['instance'] == data2['instance']
same_instance(data1, data2) == data1.instance = data2.instance

\* the threshold check is missing
qualifies_always(sim, threshold) == TRUE

\* similarity >= self.min_similarity
qualifies(sim, threshold) == FGe(sim, threshold)

\* the bridge appended for the entries at positions i and j
bridge_of(posts, i, j, sim) ==
    [similarity |-> sim,
     post1 |-> i,
     post2 |-> j,
     common_tags |-> extract_hashtags(posts[i].post).val
                       \cap extract_hashtags(posts[j].post).val]

RECURSIVE scan_pairs(_, _, _, _, _)
scan_pairs(posts, threshold, pairs, k, acc) ==
    IF k > Len(pairs) THEN Return(acc)
    ELSE LET i == pairs[k][1]
             j == pairs[k][2]
         IN  IF same_instance(posts[i], posts[j])
             THEN scan_pairs(posts, threshold, pairs, k + 1, acc)
             ELSE LET s == calculate_similarity(posts[i].post, posts[j].post)
                  IN  IF s.exc # "none" THEN Raise(s.exc, <<>>)
                      ELSE IF qualifies(s.val, threshold)
                           THEN scan_pairs(posts, threshold, pairs, k + 1,
                                    Append(acc, bridge_of(posts, i, j, s.val)))
                           ELSE scan_pairs(posts, threshold, pairs, k + 1, acc)

\* b goes behind every bridge whose similarity is not smaller than its own
RECURSIVE insert_desc(_, _)
insert_desc(sorted, b) ==
    IF sorted = <<>> THEN <<b>>
    ELSE IF FLt(Head(sorted).similarity, b.similarity)
         THEN <<b>> \o sorted
         ELSE <<Head(sorted)>> \o insert_desc(Tail(sorted), b)

\* the list is returned in the order the pairs were met
sort_bridges_skipped(bs) == bs

RECURSIVE sort_bridges(_)
\* bridges.sort(key=lambda x: x['similarity'], reverse=True): stable
sort_bridges(bs) ==
    IF bs = <<>> THEN <<>>
    ELSE insert_desc(sort_bridges(SubSeq(bs, 1, Len(bs) - 1)), bs[Len(bs)])

find_bridges(posts, threshold) ==
    LET found == scan_pairs(posts, threshold, pairs_of(posts), 1, <<>>)
    IN  IF found.exc # "none" THEN found ELSE Return(sort_bridges(found.val))

(***************************************************************************)
(* MastodonBridge.get_instance_stats: prints only, but calls               *)
(* extract_hashtags on every collected post.                               *)
(***************************************************************************)
get_instance_stats(posts) ==
    IF \A k \in 1..Len(posts) : extract_hashtags(posts[k].post).exc = "none"
    THEN Return(TRUE)
    ELSE Raise("KeyError", FALSE)

(***************************************************************************)
(* The command line and the timelines the instances deliver.               *)
(***************************************************************************)
\* the instance lists tried: none, one, a repeated name, two and three names
InstanceArgs ==
    { <<>>, <<"a.example">>, <<"a.example", "a.example">>,
      <<"a.example", "b.example">>,
      <<"a.example", "b.example", "a.example">>,
      <<"a.example", "b.example", "c.example">> }

\* values of --min-similarity: type=float accepts any float, NaN included
Thresholds == { NaN, Frac(-1, 3), Frac(1, 3), One, Frac(4, 3) }

CommandLines ==
    [instances : InstanceArgs, min_similarity : Thresholds, stats : BOOLEAN]

PostFree ==
    [tags |-> <<TagLinux>>, content |-> ContentFree,
     account |-> [acct |-> "alice", username |-> "alice"], url |-> "u/1"]
PostNice == [tags |-> <<TagLinuxLower, TagLinuxUpper>>, content |-> ContentNice]
PostUntagged == [content |-> ContentFree, url |-> "u/3"]
PostNameless == [tags |-> <<TagNameless>>, content |-> ContentNice]

TimelinePosts == {PostFree, PostNice, PostUntagged, PostNameless}

\* what fetch_public_timeline can return: any list of posts ([] on an error)
Timelines(room) == UNION { [1..n -> TimelinePosts] : n \in 0..room }

\* the entry collect_data appends for a post
observation(instance, post) ==
    [instance |-> instance,
     post |-> post,
     account |-> Get(post, "account", EmptyDict),
     url |-> Get(post, "url", "")]

(***************************************************************************)
(* main()                                                                  *)
(***************************************************************************)
Init ==
    /\ pc = "parse"
    /\ args \in CommandLines
    /\ exitCode = -1
    /\ ran = {}
    /\ instances = <<>>
    /\ min_similarity = NaN
    /\ posts_data = <<>>
    /\ fetched = 0
    /\ bridges = <<>>
    /\ KwIdle
    /\ SimIdle

Exit(code) == pc' = "exit" /\ exitCode' = code

\* parser.parse_args(): nargs='+' rejects an empty instance list with status 2
ParseArgs ==
    /\ pc = "parse"
    /\ IF Len(args.instances) = 0 THEN Exit(2)
       ELSE pc' = "validate" /\ UNCHANGED exitCode
    /\ UNCHANGED <<args, ran, instances, min_similarity, posts_data, fetched,
                   bridges, kwVars, simVars>>

\* the two checks of main(), then MastodonBridge(args.instances, ...)
Validate ==
    /\ pc = "validate"
    /\ IF FLt(args.min_similarity, Zero) \/ FGt(args.min_similarity, One)
       THEN Exit(1) /\ UNCHANGED <<instances, min_similarity>>
       ELSE IF Len(args.instances) < 2
            THEN Exit(1) /\ UNCHANGED <<instances, min_similarity>>
            ELSE /\ instances' = args.instances
                 /\ min_similarity' = args.min_similarity
                 /\ pc' = "collect"
                 /\ UNCHANGED exitCode
    /\ UNCHANGED <<args, ran, posts_data, fetched, bridges, kwVars, simVars>>

\* one iteration of collect_data's loop over self.instances
CollectInstance ==
    /\ pc = "collect"
    /\ fetched < Len(instances)
    /\ \E posts \in Timelines(MaxPosts - Len(posts_data)) :
         posts_data' = posts_data \o
            [k \in 1..Len(posts) |-> observation(instances[fetched + 1], posts[k])]
    /\ fetched' = fetched + 1
    /\ ran' = ran \cup {"collect_data"}
    /\ pc' = IF fetched' < Len(instances) THEN "collect"
             ELSE IF args.stats THEN "stats" ELSE "find"
    /\ UNCHANGED <<args, exitCode, instances, min_similarity, bridges,
                   kwVars, simVars>>

\* bridge.get_instance_stats(); an exception it raises ends the process
GetInstanceStats ==
    /\ pc = "stats"
    /\ ran' = ran \cup {"get_instance_stats"}
    /\ IF get_instance_stats(posts_data).exc = "none"
       THEN pc' = "find" /\ UNCHANGED exitCode
       ELSE Exit(1)
    /\ UNCHANGED <<args, instances, min_similarity, posts_data, fetched,
                   bridges, kwVars, simVars>>

\* bridges = bridge.find_bridges(); an exception it raises ends the process
FindBridges ==
    /\ pc = "find"
    /\ ran' = ran \cup {"find_bridges"}
    /\ LET r == find_bridges(posts_data, min_similarity)
       IN  IF r.exc = "none"
           THEN bridges' = r.val /\ pc' = "report" /\ UNCHANGED exitCode
           ELSE Exit(1) /\ UNCHANGED bridges
    /\ UNCHANGED <<args, instances, min_similarity, posts_data, fetched,
                   kwVars, simVars>>

\* print_bridges and the optional digest: output only, then main() returns
Report ==
    /\ pc = "report"
    /\ ran' = ran \cup {"print_bridges"}
    /\ Exit(0)
    /\ UNCHANGED <<args, instances, min_similarity, posts_data, fetched,
                   bridges, kwVars, simVars>>

Next ==
    \/ ParseArgs
    \/ Validate
    \/ CollectInstance
    \/ GetInstanceStats
    \/ FindBridges
    \/ Report

Spec == Init /\ [][Next]_vars

(***************************************************************************)
(* Keyword extraction on its own: any text over KwAlphabet of at most      *)
(* MaxLen characters is handed to extract_keywords.                        *)
(***************************************************************************)
KwAlphabet == {"a", "H", "t", "p", "(", " "}
KwTexts == UNION { [1..n -> KwAlphabet] : n \in 0..MaxLen }

InitKw ==
    /\ pc = "kw_call"
    /\ text \in KwTexts
    /\ keywords = {}
    /\ MainIdle
    /\ SimIdle

ExtractKeywords ==
    /\ pc = "kw_call"
    /\ keywords' = extract_keywords(text)
    /\ pc' = "kw_return"
    /\ UNCHANGED <<text, mainVars, simVars>>

NextKw == ExtractKeywords

SpecKw == InitKw /\ [][NextKw]_vars

(***************************************************************************)
(* Similarity scoring on its own: calculate_similarity is called on any    *)
(* two posts of SimPosts.                                                  *)
(***************************************************************************)
InitSim ==
    /\ pc = "sim_call"
    /\ post1 \in SimPosts
    /\ post2 \in SimPosts
    /\ similarity = NoResult
    /\ MainIdle
    /\ KwIdle

CalculateSimilarity ==
    /\ pc = "sim_call"
    /\ similarity' = calculate_similarity(post1, post2)
    /\ pc' = "sim_return"
    /\ UNCHANGED <<post1, post2, mainVars, kwVars>>

NextSim == CalculateSimilarity

SpecSim == InitSim /\ [][NextSim]_vars

(***************************************************************************)
(* Properties.                                                             *)
(***************************************************************************)
hashtags_of(post) == extract_hashtags(post).val
keywords_of(post) == extract_keywords(content_of(post))
Scored == pc = "sim_return" /\ similarity.exc = "none"
InUnit(x) == FGe(x, Zero) /\ FGe(One, x)

\* C1 as stated: the similarity of a post with itself is 1.0 once the post
\* has a hashtag or a keyword, and 0 when it has neither.
C1_SelfSimilarityIsOne ==
    (Scored /\ post1 = post2) =>
        similarity.val =
            IF hashtags_of(post1) # {} \/ keywords_of(post1) # {}
            THEN One ELSE Zero

\* C1 amended: the similarity of a post with itself is 1.0 when the post has
\* a hashtag and a keyword, 2/3 when it has hashtags only, 1/3 when it has
\* keywords only, and 0 when it has neither.
C1_SelfSimilarityByFeatures ==
    (Scored /\ post1 = post2) =>
        similarity.val =
            Frac((IF hashtags_of(post1) # {} THEN 2 ELSE 0)
                 + (IF keywords_of(post1) # {} THEN 1 ELSE 0), 3)

C1_Witness ==
    /\ Scored
    /\ post1 = post2
    /\ hashtags_of(post1) # {}
    /\ keywords_of(post1) = {}
    /\ similarity.val = Frac(2, 3)

\* C5: every similarity calculate_similarity returns lies in [0, 1].
C5_SimilarityBounded == Scored => InUnit(similarity.val)

C5_Witness ==
    /\ Scored
    /\ hashtags_of(post1) # hashtags_of(post2)
    /\ hashtags_of(post1) \cap hashtags_of(post2) # {}
    /\ keywords_of(post1) \cap keywords_of(post2) # {}
    /\ FLt(Zero, similarity.val)
    /\ FLt(similarity.val, One)

\* C6: calculate_similarity(p1, p2) is what calculate_similarity(p2, p1) is.
C6_Symmetric ==
    pc = "sim_return" => similarity = calculate_similarity(post2, post1)

C6_Witness ==
    /\ Scored
    /\ Cardinality(hashtags_of(post1)) < Cardinality(hashtags_of(post2))
    /\ Cardinality(keywords_of(post1)) > Cardinality(keywords_of(post2))
    /\ FLt(Zero, similarity.val)

\* C7: calculate_similarity completes without raising, whichever of the
\* keys content, tags and a tag's name the two posts lack.
C7_NeverRaises == pc = "sim_return" => similarity.exc = "none"

\* C9: every keyword extract_keywords returns is lowercase, has at least 4
\* characters and does not start with http.
C9_KeywordsWellFormed ==
    pc = "kw_return" =>
        \A w \in keywords :
            /\ w = lower(w)
            /\ Len(w) >= MinWordLen + 1
            /\ ~startswith(w, Http)

(***************************************************************************)
(* Properties of find_bridges and of main().                               *)
(***************************************************************************)
sim_of(i, j) == calculate_similarity(posts_data[i].post, posts_data[j].post).val

Positions == 1..Len(posts_data)

\* C2: no bridge relates two entries of the same instance.
C2_NoSameInstanceBridge ==
    \A k \in 1..Len(bridges) :
        posts_data[bridges[k].post1].instance
            # posts_data[bridges[k].post2].instance

C2_Witness ==
    /\ pc = "report"
    /\ bridges # <<>>
    /\ instances[1] = instances[Len(instances)]
    /\ \E i, j \in Positions :
         /\ i < j
         /\ posts_data[i].instance = posts_data[j].instance
         /\ FGe(sim_of(i, j), min_similarity)

\* C3: with a threshold in [0, 1], every bridge records the similarity of its
\* two posts, and that similarity is not below the threshold.
C3_ThresholdFilter ==
    InUnit(min_similarity) =>
        \A k \in 1..Len(bridges) :
            /\ FGe(bridges[k].similarity, min_similarity)
            /\ bridges[k].similarity = sim_of(bridges[k].post1, bridges[k].post2)

C3_Witness ==
    /\ pc = "report"
    /\ InUnit(min_similarity)
    /\ bridges # <<>>
    /\ \E i, j \in Positions :
         /\ i < j
         /\ posts_data[i].instance # posts_data[j].instance
         /\ FLt(sim_of(i, j), min_similarity)

\* C4: the returned list is non-increasing in similarity.
C4_Ranked ==
    \A k \in 1..(Len(bridges) - 1) :
        FGe(bridges[k].similarity, bridges[k + 1].similarity)

\* two bridges that the scan met in the other order
C4_Witness ==
    /\ pc = "report"
    /\ Len(bridges) >= 2
    /\ bridges[1].post1 > bridges[2].post1
    /\ FGt(bridges[1].similarity, bridges[2].similarity)

\* the pairs of positions find_bridges has to report for posts and threshold
Qualifying(posts, threshold) ==
    { q \in (1..Len(posts)) \X (1..Len(posts)) :
        /\ q[1] < q[2]
        /\ posts[q[1]].instance # posts[q[2]].instance
        /\ FGe(calculate_similarity(posts[q[1]].post, posts[q[2]].post).val,
               threshold) }

\* bs holds one bridge for each qualifying pair, and nothing else
Complete(posts, threshold, bs) ==
    /\ Len(bs) = Cardinality(Qualifying(posts, threshold))
    /\ \A k \in 1..Len(bs) :
         <<bs[k].post1, bs[k].post2>> \in Qualifying(posts, threshold)
    /\ \A q \in Qualifying(posts, threshold) :
         \E k \in 1..Len(bs) :
            /\ bs[k].post1 = q[1]
            /\ bs[k].post2 = q[2]
            /\ bs[k].common_tags =
                  hashtags_of(posts[q[1]].post) \cap hashtags_of(posts[q[2]].post)

\* C10: find_bridges leaves posts_data as it is, and the list it returns
\* holds exactly one bridge for each pair of positions i < j of different
\* instances whose similarity reaches the threshold, with the two posts'
\* common hashtags, and no other bridge.
C10_CompleteAndPure ==
    [][pc = "find" =>
          /\ posts_data' = posts_data
          /\ (pc' = "report" => Complete(posts_data, min_similarity, bridges'))
      ]_vars

\* three instances, one post each, and a single bridge
C10_Witness ==
    /\ pc = "report"
    /\ Len(posts_data) = 3
    /\ Cardinality({ posts_data[k].instance : k \in Positions }) = 3
    /\ Len(bridges) = 1
    /\ bridges[1].common_tags # {}

\* C8: a threshold outside [0, 1] or fewer than two instances end main()
\* with status 1 before collect_data, get_instance_stats or find_bridges
\* has run; whenever collect_data or find_bridges has run, the threshold is
\* in [0, 1] and there are at least two instances.
C8_ConfigErrorsStopEarly ==
    /\ (pc \notin {"parse", "validate"}
        /\ (~InUnit(args.min_similarity) \/ Len(args.instances) < 2))
         => (pc = "exit" /\ exitCode = 1 /\ ran = {})
    /\ (ran \cap {"collect_data", "find_bridges"} # {})
         => (InUnit(args.min_similarity) /\ Len(args.instances) >= 2)

====
